---- MODULE Spec2Model ----
(***************************************************************************)
(* Model of src/src/anim_parser.rs: the animation timeline (Animation,     *)
(* AnimationFrame, PositionedAnimationFrame), its text parser              *)
(* (Animation::from_c) and the OAM sprite descriptor (OAM::new,            *)
(* get_width_and_height, get_sprite_indexes).                              *)
(***************************************************************************)
EXTENDS Integers, Sequences, FiniteSets, TLC

VARIABLES
    frames,           \* Animation.frames : Vec<AnimationFrame>
    duration,         \* Animation.duration : usize
    overflow_checks,  \* build profile: TRUE = arithmetic overflow panics, FALSE = it wraps
    panicked,         \* the thread has panicked (the process is gone)
    call,             \* the last call made: [op, id, arg]
    ret,              \* what the last call returned: "None", "Some", "unit", "panic"
    edits,            \* number of calls made so far
    index,            \* result of the last get_anim_frame_from_frames
    out,              \* result of the last conversion round trip
    bytes,            \* the six bytes handed to OAM::new
    oam,              \* the decoded sprite descriptor
    sprite_indexes,   \* result of the last get_sprite_indexes
    one_dimensional,  \* result of the last get_sprite_indexes_one_dimensional
    input             \* the text handed to Animation::from_c, a sequence of characters

vars == <<frames, duration, overflow_checks, panicked, call, ret, edits, index, out,
          bytes, oam, sprite_indexes, one_dimensional, input>>

oamVars == <<bytes, oam, sprite_indexes, one_dimensional>>

----------------------------------------------------------------------------
(* Bounds of the model *)

MaxEdits == 3        \* calls made in one behaviour of the timeline
MaxFrames == 3       \* insert_anim_frame is not called on a longer frame list
MaxInitFrames == 2   \* frames of the parsed animation
MaxLen == 3          \* frames of the animations the queries are applied to
MaxElapsed == 12     \* largest argument of get_anim_frame_from_frames

Cells == {"a", "b"}
InitDurations == {1, 3}
QueryDurations == {0, 2, 3, 5, 255}

----------------------------------------------------------------------------
(* Machine integers *)

U8 == 256

\* `expr as u8`: truncation to the low eight bits
AsU8(x) == x % U8

\* `expr as i8`: truncation to eight bits, read as two's complement
AsI8(x) == ((x + 128) % U8) - 128

----------------------------------------------------------------------------
(* AnimationFrame, PositionedAnimationFrame *)

AnimationFrame(cell, dur, id) == [cell |-> cell, duration |-> dur, id |-> id]

PositionedAnimationFrame(cell, position, id) == [cell |-> cell, position |-> position, id |-> id]

\* Vec::remove(index), index counted from 1 here
RemoveAt(s, i) == SubSeq(s, 1, i - 1) \o SubSeq(s, i + 1, Len(s))

\* Iterator::position / find: the first index whose frame has the id, 0 when none
FirstWithId(s, frame_id) ==
    IF \E k \in 1..Len(s) : s[k].id = frame_id
    THEN CHOOSE k \in 1..Len(s) : s[k].id = frame_id /\ \A j \in 1..(k - 1) : s[j].id # frame_id
    ELSE 0

RECURSIVE get_total_frames(_)
get_total_frames(fs) ==
    IF fs = << >> THEN 0 ELSE fs[1].duration + get_total_frames(Tail(fs))

\* the loop of convert_duration_frames_to_positioned: acc is positioned_frames,
\* total the running total_duration
RECURSIVE PositionedLoop(_, _, _)
PositionedLoop(fs, acc, total) ==
    IF fs = << >> THEN acc
    ELSE PositionedLoop(Tail(fs),
                        Append(acc, PositionedAnimationFrame(fs[1].cell, total, fs[1].id)),
                        total + fs[1].duration)

convert_duration_frames_to_positioned(fs) == PositionedLoop(fs, << >>, 0)

\* insertion of one frame into a list sorted by position, after every frame
\* whose position is not greater (slice::sort_by is a stable sort)
RECURSIVE InsertUnstable(_, _)
InsertUnstable(sorted, f) ==
    IF sorted = << >> THEN <<f>>
    ELSE IF f.position <= sorted[1].position THEN <<f>> \o sorted
    ELSE <<sorted[1]>> \o InsertUnstable(Tail(sorted), f)

RECURSIVE InsertStable(_, _)
InsertStable(sorted, f) ==
    IF sorted = << >> THEN <<f>>
    ELSE IF f.position < sorted[1].position THEN <<f>> \o sorted
    ELSE <<sorted[1]>> \o InsertStable(Tail(sorted), f)

RECURSIVE SortLoop(_, _)
SortLoop(fs, sorted) ==
    IF fs = << >> THEN sorted ELSE SortLoop(Tail(fs), InsertStable(sorted, fs[1]))

\* frames.sort_by(|a, b| a.position.cmp(&b.position))
SortByPosition(fs) == SortLoop(fs, << >>)

convert_positioned_frames_to_duration(pfs, dur) ==
    LET sorted == SortByPosition(pfs)
        n == Len(sorted)
        next_frame_pos(i) == IF i = n THEN dur ELSE sorted[i + 1].position
    IN  IF n = 0 THEN << >>
        ELSE [i \in 1..n |->
                AnimationFrame(sorted[i].cell,
                               AsU8(next_frame_pos(i) - sorted[i].position),
                               sorted[i].id)]

----------------------------------------------------------------------------
(* The timeline edits. Each operator is the whole method: it takes the       *)
(* animation's frames and duration and gives the frames it leaves, the value *)
(* it returns and whether it panicked.                                       *)

Outcome(fs, r, p) == [frames |-> fs, ret |-> r, panic |-> p]

move_anim_frame_unguarded(fs, dur, frame_id, offset) ==
    LET positioned == convert_duration_frames_to_positioned(fs)
        k == FirstWithId(positioned, frame_id)
    IN  IF offset = 0 THEN Outcome(fs, "None", FALSE)
        ELSE IF k = 0 THEN Outcome(fs, "None", FALSE)
        ELSE Outcome(convert_positioned_frames_to_duration(
                        [positioned EXCEPT ![k].position = @ + offset], dur),
                     "Some", FALSE)

move_anim_frame(fs, dur, frame_id, offset) ==
    LET positioned == convert_duration_frames_to_positioned(fs)
        k == FirstWithId(positioned, frame_id)
    IN  IF frame_id = 0 THEN Outcome(fs, "None", FALSE)
        ELSE IF offset = 0 THEN Outcome(fs, "None", FALSE)
        ELSE IF k = 0 THEN Outcome(fs, "None", FALSE)
        ELSE Outcome(convert_positioned_frames_to_duration(
                        [positioned EXCEPT ![k].position = @ + offset], dur),
                     "Some", FALSE)

insert_anim_frame(fs, dur, cell, position) ==
    LET positioned == convert_duration_frames_to_positioned(fs)
        pushed == Append(positioned,
                         PositionedAnimationFrame(cell, position, Len(positioned) + 1))
    IN  Outcome(convert_positioned_frames_to_duration(pushed, dur), "unit", FALSE)

\* checks is TRUE in a build with overflow checks (u8 += panics) and FALSE
\* in one without (u8 += wraps). frames[index - 1] with index = 0 panics in
\* both: on the subtraction with checks, on the indexing without.
remove_anim_frame(fs, frame_id, checks) ==
    LET k == FirstWithId(fs, frame_id)
        removed == RemoveAt(fs, k)
        sum == removed[k - 1].duration + fs[k].duration
    IN  IF frame_id = 0 THEN Outcome(fs, "unit", FALSE)
        ELSE IF k = 0 THEN Outcome(fs, "unit", FALSE)
        ELSE IF k = 1 THEN Outcome(removed, "panic", TRUE)
        ELSE IF sum >= U8 /\ checks THEN Outcome(removed, "panic", TRUE)
        ELSE Outcome([removed EXCEPT ![k - 1].duration = AsU8(sum)], "unit", FALSE)

----------------------------------------------------------------------------
(* The queries and update_duration *)

\* the loop of get_anim_frame_from_frames: remaining iterations, result
\* (counted from 0) and the u8 counter i; current_frame is frames[result]
RECURSIVE FrameLoop(_, _, _, _, _)
FrameLoop(fs, remaining, result, i, checks) ==
    IF remaining = 0 THEN [index |-> result, panic |-> FALSE]
    ELSE IF i = fs[result + 1].duration
         THEN IF result + 1 >= Len(fs)
              THEN [index |-> result + 1, panic |-> TRUE]
              ELSE FrameLoop(fs, remaining - 1, result + 1, 1, checks)
         ELSE IF i + 1 >= U8 /\ checks
              THEN [index |-> result, panic |-> TRUE]
              ELSE FrameLoop(fs, remaining - 1, result, AsU8(i + 1), checks)

get_anim_frame_from_frames_inclusive(fs, n, checks) ==
    IF n >= get_total_frames(fs) THEN [index |-> 0, panic |-> FALSE]
    ELSE IF Len(fs) = 0 THEN [index |-> 0, panic |-> FALSE]
    ELSE FrameLoop(fs, n, 0, 0, checks)

get_anim_frame_from_frames(fs, n, checks) ==
    IF n > get_total_frames(fs) THEN [index |-> 0, panic |-> FALSE]
    ELSE IF Len(fs) = 0 THEN [index |-> 0, panic |-> FALSE]
    ELSE FrameLoop(fs, n, 0, 0, checks)

get_minimum_duration(fs) ==
    LET positioned == convert_duration_frames_to_positioned(fs)
    IN  IF Len(positioned) = 0 THEN 0 ELSE positioned[Len(positioned)].position

\* self.duration - minimum_duration is a usize subtraction: below zero it
\* panics in a build with overflow checks and wraps (mod 2^64, then `as u8`)
\* in one without
update_duration(fs, dur, checks) ==
    LET minimum_duration == get_minimum_duration(fs)
    IN  IF Len(fs) = 0 THEN Outcome(fs, "unit", FALSE)
        ELSE IF dur < minimum_duration /\ checks THEN Outcome(fs, "panic", TRUE)
        ELSE Outcome([fs EXCEPT ![Len(fs)].duration = AsU8(dur - minimum_duration)],
                     "unit", FALSE)

----------------------------------------------------------------------------
(* Animation::from_c. The text is a sequence of one-character strings, all   *)
(* ASCII, so byte offsets (c[i..]) and character offsets (c.chars().nth(i))  *)
(* agree. Offsets count from 0 as in the source.                             *)

\* c.chars().nth(i): the character, or "" for None
Nth(text, i) == IF i < Len(text) THEN text[i + 1] ELSE ""

\* c[i..].find("{"), as an offset into c: -1 for None. i <= Len(text).
FindBrace(text, i) ==
    IF \E p \in i..(Len(text) - 1) : text[p + 1] = "{"
    THEN CHOOSE p \in i..(Len(text) - 1) :
            text[p + 1] = "{" /\ \A q \in i..(p - 1) : text[q + 1] # "{"
    ELSE 0 - 1

\* the loop collecting frame_positions; c[i..] panics when i is past the end
RECURSIVE FramePositionsLoop(_, _, _)
FramePositionsLoop(text, i, frame_positions) ==
    IF i > Len(text) THEN [panic |-> TRUE, positions |-> frame_positions]
    ELSE IF FindBrace(text, i) < 0 THEN [panic |-> FALSE, positions |-> frame_positions]
    ELSE FramePositionsLoop(text, FindBrace(text, i) + 4,
                            Append(frame_positions, FindBrace(text, i)))

\* `while c.chars().nth(i) != Some(stop)`: the characters other than ' '
\* pushed up to the stop character; .unwrap() panics at the end of the text
RECURSIVE CollectUntil(_, _, _, _)
CollectUntil(text, i, stop, acc) ==
    IF Nth(text, i) = stop THEN [panic |-> FALSE, str |-> acc, i |-> i]
    ELSE IF Nth(text, i) = "" THEN [panic |-> TRUE, str |-> acc, i |-> i]
    ELSE CollectUntil(text, i + 1, stop,
                      IF Nth(text, i) = " " THEN acc ELSE Append(acc, Nth(text, i)))

Digits == <<"0", "1", "2", "3", "4", "5", "6", "7", "8", "9">>

DigitValue(ch) == (CHOOSE d \in 1..10 : Digits[d] = ch) - 1

IsDigit(ch) == \E d \in 1..10 : Digits[d] = ch

RECURSIVE DecimalValue(_, _)
DecimalValue(str, acc) ==
    IF str = << >> THEN acc
    ELSE DecimalValue(Tail(str), acc * 10 + DigitValue(str[1]))

\* duration_str.parse::<u8>(): -1 for Err. An optional leading '+', then
\* one or more digits, of value at most 255.
ParseU8(str) ==
    LET digits == IF str # << >> /\ str[1] = "+" THEN Tail(str) ELSE str
    IN  IF digits = << >> THEN 0 - 1
        ELSE IF \E k \in 1..Len(digits) : ~IsDigit(digits[k]) THEN 0 - 1
        ELSE IF DecimalValue(digits, 0) >= U8 THEN 0 - 1
        ELSE DecimalValue(digits, 0)

Parsed(r, fs, total) == [ret |-> r, frames |-> fs, duration |-> total]

\* the loop over frame_positions: the frames pushed so far and total_duration
RECURSIVE FrameBlocksLoop(_, _, _, _)
FrameBlocksLoop(text, positions, fs, total_duration) ==
    IF positions = << >> THEN Parsed("Some", fs, total_duration)
    ELSE LET cel == CollectUntil(text, positions[1] + 1, ",", << >>)
             dur == CollectUntil(text, cel.i + 1, "}", << >>)
             value == ParseU8(dur.str)
         IN  IF cel.panic \/ dur.panic THEN Parsed("panic", << >>, 0)
             ELSE IF value < 0 THEN Parsed("None", << >>, 0)
             ELSE FrameBlocksLoop(text, Tail(positions),
                                  Append(fs, AnimationFrame(cel.str, value, Len(fs))),
                                  total_duration + value)

\* Animation::from_c(c, name): "Some" with the frames and duration of the
\* Animation, "None", or "panic". frame_positions.remove(0) panics on an
\* empty vector.
from_c(text) ==
    LET scan == FramePositionsLoop(text, 0, << >>)
    IN  IF scan.panic THEN Parsed("panic", << >>, 0)
        ELSE IF scan.positions = << >> THEN Parsed("panic", << >>, 0)
        ELSE FrameBlocksLoop(text, Tail(scan.positions), << >>, 0)

----------------------------------------------------------------------------
(* OAM: the sprite descriptor *)

Word(hi, lo) == hi * 256 + lo

OAM(shape, size, flip, x, y, palette, tile) ==
    [shape |-> shape, size |-> size, flip |-> flip, x |-> x, y |-> y,
     palette |-> palette, tile |-> tile]

\* a bug OAM::new could have: the tile masked with 0x00FF
OAM_new_short_tile_mask(b) ==
    LET word1 == Word(b[1], b[2])
        word2 == Word(b[3], b[4])
        word3 == Word(b[5], b[6])
        y0 == word1 % 4096
        flip_size_nibble == word2 \div 4096
        size_bits == flip_size_nibble - (flip_size_nibble % 4)
        x0 == word2 % 4096
    IN  OAM(CASE word1 \div 4096 = 4 -> "Horizontal"
              [] word1 \div 4096 = 8 -> "Vertical"
              [] OTHER -> "Square",
            CASE size_bits = 4 -> "Size1"
              [] size_bits = 8 -> "Size2"
              [] size_bits = 12 -> "Size3"
              [] OTHER -> "Size0",
            CASE flip_size_nibble - size_bits = 1 -> "Horizontal"
              [] flip_size_nibble - size_bits = 2 -> "Vertical"
              [] flip_size_nibble - size_bits = 3 -> "Both"
              [] OTHER -> "None",
            AsI8(IF x0 >= 128 THEN x0 - 512 ELSE x0),
            AsI8(IF y0 >= 128 THEN y0 - 256 ELSE y0),
            word3 \div 4096,
            word3 % 256)

\* OAM::new(bytes): 0xSYYY, 0xFXXX, 0xPTTT
OAM_new(b) ==
    LET word1 == Word(b[1], b[2])
        word2 == Word(b[3], b[4])
        word3 == Word(b[5], b[6])
        y0 == word1 % 4096
        flip_size_nibble == word2 \div 4096
        size_bits == flip_size_nibble - (flip_size_nibble % 4)
        x0 == word2 % 4096
    IN  OAM(CASE word1 \div 4096 = 0 -> "Square"
              [] word1 \div 4096 = 4 -> "Horizontal"
              [] word1 \div 4096 = 8 -> "Vertical"
              [] OTHER -> "Square",
            CASE size_bits = 0 -> "Size0"
              [] size_bits = 4 -> "Size1"
              [] size_bits = 8 -> "Size2"
              [] size_bits = 12 -> "Size3"
              [] OTHER -> "Size0",
            CASE flip_size_nibble - size_bits = 0 -> "None"
              [] flip_size_nibble - size_bits = 1 -> "Horizontal"
              [] flip_size_nibble - size_bits = 2 -> "Vertical"
              [] flip_size_nibble - size_bits = 3 -> "Both"
              [] OTHER -> "None",
            AsI8(IF x0 >= 128 THEN x0 - 512 ELSE x0),
            AsI8(IF y0 >= 128 THEN y0 - 256 ELSE y0),
            word3 \div 4096,
            word3 % 4096)

\* <<width, height>>
get_width_and_height(o) ==
    CASE o.shape = "Square" ->
            (CASE o.size = "Size0" -> <<1, 1>>
               [] o.size = "Size1" -> <<2, 2>>
               [] o.size = "Size2" -> <<4, 4>>
               [] o.size = "Size3" -> <<8, 8>>)
      [] o.shape = "Horizontal" ->
            (CASE o.size = "Size0" -> <<2, 1>>
               [] o.size = "Size1" -> <<4, 1>>
               [] o.size = "Size2" -> <<4, 2>>
               [] o.size = "Size3" -> <<8, 4>>)
      [] o.shape = "Vertical" ->
            (CASE o.size = "Size0" -> <<1, 2>>
               [] o.size = "Size1" -> <<1, 4>>
               [] o.size = "Size2" -> <<2, 4>>
               [] o.size = "Size3" -> <<4, 8>>)

\* (0..n).collect()
Range(n) == [i \in 1..n |-> i - 1]

\* (0..n).rev().collect()
RevRange(n) == [i \in 1..n |-> n - i]

\* a bug get_sprite_indexes could have: the Vertical flip reversing the columns
get_sprite_indexes_vertical_as_horizontal(o) ==
    LET wh == get_width_and_height(o)
        x_range == IF o.flip \in {"Horizontal", "Vertical", "Both"}
                   THEN RevRange(wh[1]) ELSE Range(wh[1])
        y_range == IF o.flip = "Both" THEN RevRange(wh[2]) ELSE Range(wh[2])
    IN  [r \in 1..Len(y_range) |->
            [c \in 1..Len(x_range) |-> o.tile + x_range[c] + y_range[r] * 32]]

get_sprite_indexes(o) ==
    LET wh == get_width_and_height(o)
        x_range == IF o.flip \in {"Horizontal", "Both"}
                   THEN RevRange(wh[1]) ELSE Range(wh[1])
        y_range == IF o.flip \in {"Vertical", "Both"}
                   THEN RevRange(wh[2]) ELSE Range(wh[2])
    IN  [r \in 1..Len(y_range) |->
            [c \in 1..Len(x_range) |-> o.tile + x_range[c] + y_range[r] * 32]]

RECURSIVE Flatten(_)
Flatten(rows) == IF rows = << >> THEN << >> ELSE rows[1] \o Flatten(Tail(rows))

get_sprite_indexes_one_dimensional(o) == Flatten(get_sprite_indexes(o))

----------------------------------------------------------------------------
(* The timeline: an animation as Animation::from_c / from_bin leave it       *)
(* (ids 0..n-1, duration the sum of the frame durations), edited by          *)
(* move_anim_frame, insert_anim_frame and remove_anim_frame.                 *)

NoCall == [op |-> "none", id |-> 0, arg |-> 0]

ParsedFrames(cells, durs) ==
    [k \in 1..Len(cells) |-> AnimationFrame(cells[k], durs[k], k - 1)]

OAMIdle ==
    /\ bytes = << >>
    /\ oam = [shape |-> "Square", size |-> 0, flip |-> "None", x |-> 0, y |-> 0,
              palette |-> 0, tile |-> 0]
    /\ sprite_indexes = << >>
    /\ one_dimensional = << >>

Init ==
    /\ \E n \in 1..MaxInitFrames :
         \E durs \in [1..n -> InitDurations] :
            frames = ParsedFrames([k \in 1..n |-> "a"], durs)
    /\ duration = get_total_frames(frames)
    /\ overflow_checks \in BOOLEAN
    /\ panicked = FALSE
    /\ call = NoCall
    /\ ret = "unit"
    /\ edits = 0
    /\ index = 0
    /\ out = << >>
    /\ input = << >>
    /\ OAMIdle

Ids == 0..(MaxFrames + 1)
Offsets == {0 - 2, 0, 1}
Positions == (0 - 1)..(duration + 1)

Apply(o, c) ==
    /\ frames' = o.frames
    /\ ret' = o.ret
    /\ panicked' = o.panic
    /\ call' = c
    /\ edits' = edits + 1
    /\ UNCHANGED <<duration, overflow_checks, index, out>>
    /\ UNCHANGED <<oamVars, input>>

MoveAnimFrame ==
    /\ ~panicked /\ edits < MaxEdits
    /\ \E frame_id \in Ids, offset \in Offsets :
         Apply(move_anim_frame(frames, duration, frame_id, offset),
               [op |-> "move", id |-> frame_id, arg |-> offset])

InsertAnimFrame ==
    /\ ~panicked /\ edits < MaxEdits
    /\ Len(frames) < MaxFrames
    /\ \E cell \in Cells, position \in Positions :
         Apply(insert_anim_frame(frames, duration, cell, position),
               [op |-> "insert", id |-> Len(frames) + 1, arg |-> position])

RemoveAnimFrame ==
    /\ ~panicked /\ edits < MaxEdits
    /\ \E frame_id \in Ids :
         Apply(remove_anim_frame(frames, frame_id, overflow_checks),
               [op |-> "remove", id |-> frame_id, arg |-> 0])

Next == MoveAnimFrame \/ InsertAnimFrame \/ RemoveAnimFrame

Spec == Init /\ [][Next]_vars

----------------------------------------------------------------------------
(* Claims about the timeline edits, checked under Spec *)

IsRejectedMove(c) == c.op = "move" /\ (c.id = 0 \/ c.arg = 0)
IsRejectedRemove(c) == c.op = "remove" /\ c.id = 0

\* C1: after every sequence of move_anim_frame, insert_anim_frame and
\* remove_anim_frame calls the frame durations sum to Animation.duration.
C1_SumOfDurationsIsDuration ==
    ~panicked => get_total_frames(frames) = duration

\* C2: move_anim_frame(0, n), move_anim_frame(id, 0) return None and leave
\* the frame list and the total duration as they were; remove_anim_frame(0)
\* leaves the frame list and the total duration as they were.
C2_RejectedEditsAreNoOps ==
    [][ /\ IsRejectedMove(call') =>
            (frames' = frames /\ duration' = duration /\ ret' = "None" /\ ~panicked')
        /\ IsRejectedRemove(call') =>
            (frames' = frames /\ duration' = duration /\ ~panicked') ]_vars

\* a rejected move of frame 0 by a non-zero offset has been made on an
\* animation of several frames, and after an earlier edit
C2_Witness ==
    /\ call.op = "move" /\ call.id = 0 /\ call.arg # 0
    /\ ret = "None"
    /\ Len(frames) >= 2
    /\ edits >= 2

\* C3: all frame ids of the frame list are pairwise distinct.
C3_FrameIdsDistinct ==
    \A i, j \in 1..Len(frames) : i # j => frames[i].id # frames[j].id

\* C4: the frame at index 0 of the frame list has id 0.
C4_FirstFrameHasIdZero ==
    (~panicked /\ frames # << >>) => frames[1].id = 0

\* C5: no call of move_anim_frame, insert_anim_frame or remove_anim_frame
\* panics.
C5_NoEditPanics ==
    ~panicked

----------------------------------------------------------------------------
(* The queries: an animation of up to MaxLen frames with any u8 durations,   *)
(* queried by get_anim_frame_from_frames and converted to positioned form    *)
(* and back.                                                                 *)

QueryFrames(durs) ==
    [k \in 1..Len(durs) |-> AnimationFrame(IF k % 2 = 1 THEN "a" ELSE "b", durs[k], k - 1)]

InitQuery ==
    /\ \E n \in 0..MaxLen :
         \E durs \in [1..n -> QueryDurations] : frames = QueryFrames(durs)
    /\ duration = get_total_frames(frames)
    /\ overflow_checks \in BOOLEAN
    /\ panicked = FALSE
    /\ call = NoCall
    /\ ret = "unit"
    /\ edits = 0
    /\ index = 0
    /\ out = << >>
    /\ input = << >>
    /\ OAMIdle

GetAnimFrameFromFrames ==
    /\ ~panicked
    /\ \E n \in 0..MaxElapsed :
         LET r == get_anim_frame_from_frames(frames, n, overflow_checks)
         IN  /\ index' = r.index
             /\ panicked' = r.panic
             /\ ret' = IF r.panic THEN "panic" ELSE "Some"
             /\ call' = [op |-> "frame_at", id |-> 0, arg |-> n]
    /\ UNCHANGED <<frames, duration, overflow_checks, edits, out>>
    /\ UNCHANGED <<oamVars, input>>

\* convert_duration_frames_to_positioned, then
\* convert_positioned_frames_to_duration with the total of the durations
ConvertRoundTrip ==
    /\ ~panicked
    /\ out' = convert_positioned_frames_to_duration(
                  convert_duration_frames_to_positioned(frames), get_total_frames(frames))
    /\ call' = [op |-> "roundtrip", id |-> 0, arg |-> get_total_frames(frames)]
    /\ ret' = "Some"
    /\ UNCHANGED <<frames, duration, overflow_checks, panicked, edits, index>>
    /\ UNCHANGED <<oamVars, input>>

NextQuery == GetAnimFrameFromFrames \/ ConvertRoundTrip

SpecQuery == InitQuery /\ [][NextQuery]_vars

----------------------------------------------------------------------------
(* update_duration: an animation of up to MaxLen frames whose                *)
(* Animation.duration the editor has set (the field is public) to any        *)
(* target, then adjusted by update_duration.                                 *)

UpdateTargets == {0, 2, 10, 255}

InitUpdate ==
    /\ \E n \in 0..MaxLen :
         \E durs \in [1..n -> QueryDurations] : frames = QueryFrames(durs)
    /\ duration \in UpdateTargets \cup {get_total_frames(frames)}
    /\ overflow_checks \in BOOLEAN
    /\ panicked = FALSE
    /\ call = NoCall
    /\ ret = "unit"
    /\ edits = 0
    /\ index = 0
    /\ out = << >>
    /\ input = << >>
    /\ OAMIdle

GetMinimumDuration ==
    /\ ~panicked
    /\ index' = get_minimum_duration(frames)
    /\ call' = [op |-> "minimum", id |-> 0, arg |-> 0]
    /\ ret' = "Some"
    /\ UNCHANGED <<frames, duration, overflow_checks, panicked, edits, out>>
    /\ UNCHANGED <<oamVars, input>>

UpdateDuration ==
    /\ ~panicked
    /\ LET o == update_duration(frames, duration, overflow_checks)
       IN  /\ frames' = o.frames
           /\ ret' = o.ret
           /\ panicked' = o.panic
    /\ call' = [op |-> "update", id |-> 0, arg |-> duration]
    /\ UNCHANGED <<duration, overflow_checks, edits, index, out>>
    /\ UNCHANGED <<oamVars, input>>

NextUpdate == GetMinimumDuration \/ UpdateDuration

SpecUpdate == InitUpdate /\ [][NextUpdate]_vars

----------------------------------------------------------------------------
(* Claims about the queries (SpecQuery) and update_duration (SpecUpdate) *)

Durations(fs) == [k \in 1..Len(fs) |-> fs[k].duration]

\* C6 as stated: with durations [3,5,2], elapsed 0 gives index 0, elapsed 3
\* index 1, elapsed 7 index 2, every elapsed of 10 or more index 0; an empty
\* frame list gives 0.
C6_FrameAtAsStated ==
    (call.op = "frame_at" /\ ~panicked) =>
        /\ Durations(frames) = <<3, 5, 2>> =>
              /\ call.arg = 0 => index = 0
              /\ call.arg = 3 => index = 1
              /\ call.arg = 7 => index = 2
              /\ call.arg >= 10 => index = 0
        /\ frames = << >> => index = 0

\* C6 amended: with durations [3,5,2], get_anim_frame_from_frames gives
\* index 0 for elapsed 0..3, index 1 for elapsed 4..8, index 2 for elapsed
\* 9..10 and 0 for every elapsed above 10; an empty frame list gives 0; and
\* it does not panic.
C6_FrameAtCountsElapsedFromOne ==
    call.op = "frame_at" =>
        /\ Durations(frames) = <<3, 5, 2>> =>
              /\ ~panicked
              /\ index = IF call.arg <= 3 THEN 0
                         ELSE IF call.arg <= 8 THEN 1
                         ELSE IF call.arg <= 10 THEN 2
                         ELSE 0
        /\ frames = << >> => (~panicked /\ index = 0)

\* get_anim_frame_from_frames(10) has answered 2 on durations [3,5,2]
C6_Witness ==
    /\ call.op = "frame_at" /\ call.arg = 10
    /\ Durations(frames) = <<3, 5, 2>>
    /\ index = 2

\* C7: converting a duration-form frame list to positioned form and back
\* with the total of its durations gives the same list: same length, order,
\* cel names, ids and durations.
C7_RoundTripIsIdentity ==
    call.op = "roundtrip" => out = frames

\* the round trip has been made on three frames, one of them of duration 0
\* and one of duration 255
C7_Witness ==
    /\ call.op = "roundtrip"
    /\ Len(frames) = 3
    /\ frames[2].duration = 0
    /\ frames[3].duration = 255
    /\ out = frames

\* C8: update_duration on a non-empty animation leaves the frame durations
\* summing to Animation.duration, changes no frame but the last, of which
\* it keeps the cel name and id, and leaves the order and Animation.duration.
C8_UpdateDurationFitsTarget ==
    [][ (call'.op = "update" /\ frames # << >>) =>
            /\ ~panicked'
            /\ get_total_frames(frames') = duration'
            /\ duration' = duration
            /\ Len(frames') = Len(frames)
            /\ \A k \in 1..(Len(frames) - 1) : frames'[k] = frames[k]
            /\ frames'[Len(frames)].cell = frames[Len(frames)].cell
            /\ frames'[Len(frames)].id = frames[Len(frames)].id ]_vars

----------------------------------------------------------------------------
(* The sprite descriptor: six bytes (three packed words) are decoded by      *)
(* OAM::new and the tile indexes of the descriptor are computed.             *)

ShapeNibbles == {0, 4, 8, 12}
YFields == {0, 1, 127, 128, 255, 256}
FlipSizeNibbles == 0..15
XFields == {0, 1, 127, 128, 384, 511}
PaletteNibbles == {0, 15}
TileFields == {0, 5, 4095}

BytesOf(word1, word2, word3) ==
    <<word1 \div 256, word1 % 256, word2 \div 256, word2 % 256, word3 \div 256, word3 % 256>>

NoOAM == OAM("Square", "Size0", "None", 0, 0, 0, 0)

InitOAM ==
    /\ \E s \in ShapeNibbles, y \in YFields, f \in FlipSizeNibbles, x \in XFields,
          p \in PaletteNibbles, t \in TileFields :
            bytes = BytesOf(s * 4096 + y, f * 4096 + x, p * 4096 + t)
    /\ oam = NoOAM
    /\ sprite_indexes = << >>
    /\ one_dimensional = << >>
    /\ call = NoCall
    /\ ret = "unit"
    /\ frames = << >>
    /\ duration = 0
    /\ overflow_checks = FALSE
    /\ panicked = FALSE
    /\ edits = 0
    /\ index = 0
    /\ out = << >>
    /\ input = << >>

New ==
    /\ call.op = "none"
    /\ oam' = OAM_new(bytes)
    /\ call' = [op |-> "new", id |-> 0, arg |-> 0]
    /\ UNCHANGED <<bytes, sprite_indexes, one_dimensional>>
    /\ UNCHANGED <<frames, duration, overflow_checks, panicked, ret, edits, index, out, input>>

GetSpriteIndexes ==
    /\ call.op = "new"
    /\ sprite_indexes' = get_sprite_indexes(oam)
    /\ one_dimensional' = get_sprite_indexes_one_dimensional(oam)
    /\ call' = [op |-> "indexes", id |-> 0, arg |-> 0]
    /\ UNCHANGED <<bytes, oam>>
    /\ UNCHANGED <<frames, duration, overflow_checks, panicked, ret, edits, index, out, input>>

NextOAM == New \/ GetSpriteIndexes

SpecOAM == InitOAM /\ [][NextOAM]_vars

----------------------------------------------------------------------------
(* Claims about the sprite descriptor, checked under SpecOAM *)

\* the shape/size table of the format, in tiles: <<width, height>>
TableWidthHeight(shape, size) ==
    LET n == CASE size = "Size0" -> 1 [] size = "Size1" -> 2
               [] size = "Size2" -> 3 [] size = "Size3" -> 4
    IN  CASE shape = "Square" -> <<<<1, 1>>, <<2, 2>>, <<4, 4>>, <<8, 8>>>>[n]
          [] shape = "Horizontal" -> <<<<2, 1>>, <<4, 1>>, <<4, 2>>, <<8, 4>>>>[n]
          [] shape = "Vertical" -> <<<<1, 2>>, <<1, 4>>, <<2, 4>>, <<4, 8>>>>[n]

\* C9: get_sprite_indexes gives height rows of width columns whose entry at
\* row r, column c (from 0) is tile + c' + r' * 32, with c' = width-1-c under
\* flip Horizontal/Both and c otherwise, r' = height-1-r under flip
\* Vertical/Both and r otherwise; get_sprite_indexes_one_dimensional is the
\* row-major concatenation of that matrix.
C9_SpriteIndexes ==
    call.op = "indexes" =>
        LET width == TableWidthHeight(oam.shape, oam.size)[1]
            height == TableWidthHeight(oam.shape, oam.size)[2]
            cc(c) == IF oam.flip \in {"Horizontal", "Both"} THEN width - 1 - c ELSE c
            rr(r) == IF oam.flip \in {"Vertical", "Both"} THEN height - 1 - r ELSE r
        IN  /\ Len(sprite_indexes) = height
            /\ \A r \in 0..(height - 1) :
                  /\ Len(sprite_indexes[r + 1]) = width
                  /\ \A c \in 0..(width - 1) :
                        /\ sprite_indexes[r + 1][c + 1] = oam.tile + cc(c) + rr(r) * 32
                        /\ one_dimensional[r * width + c + 1] = sprite_indexes[r + 1][c + 1]
            /\ Len(one_dimensional) = width * height

\* the indexes of an 8 by 4 sprite flipped vertically have been computed
C9_Witness ==
    /\ call.op = "indexes"
    /\ oam.shape = "Horizontal" /\ oam.size = "Size3" /\ oam.flip = "Vertical"
    /\ oam.tile = 5
    /\ sprite_indexes[1][1] = 5 + 3 * 32
    /\ one_dimensional[32] = 5 + 7

\* the packed words of the six bytes
Words(b) == <<Word(b[1], b[2]), Word(b[3], b[4]), Word(b[5], b[6])>>

\* a valid packed triple: shape nibble 0x0, 0x4 or 0x8; the y field v or
\* v + 0x100 and the x field v or v + 0x200 for a v in -128..127 (v when v is
\* not negative)
ValidPacked(b) ==
    LET w == Words(b)
    IN  /\ w[1] \div 4096 \in {0, 4, 8}
        /\ w[1] % 4096 \in 0..255
        /\ w[2] % 4096 \in (0..127) \cup (384..511)

\* the signed value a field of a valid packed word encodes
SignedOfField(field, bias) == IF field < 128 THEN field ELSE field - bias

\* the three words a descriptor packs to, under the bit rules of the format
Encode(o) ==
    LET shape_code == CASE o.shape = "Square" -> 0 [] o.shape = "Horizontal" -> 4
                        [] o.shape = "Vertical" -> 8
        size_bits == CASE o.size = "Size0" -> 0 [] o.size = "Size1" -> 4
                       [] o.size = "Size2" -> 8 [] o.size = "Size3" -> 12
        flip_bits == CASE o.flip = "None" -> 0 [] o.flip = "Horizontal" -> 1
                       [] o.flip = "Vertical" -> 2 [] o.flip = "Both" -> 3
    IN  << shape_code * 4096 + (IF o.y < 0 THEN o.y + 256 ELSE o.y),
           (size_bits + flip_bits) * 4096 + (IF o.x < 0 THEN o.x + 512 ELSE o.x),
           o.palette * 4096 + o.tile >>

\* C10: for a valid packed triple, encoding the descriptor OAM::new decodes
\* gives the three words back, and the decoded x and y are the signed 8-bit
\* values the fields encode.
C10_DecodeThenEncode ==
    (call.op # "none" /\ ValidPacked(bytes)) =>
        /\ Encode(oam) = Words(bytes)
        /\ oam.x = SignedOfField(Words(bytes)[2] % 4096, 512)
        /\ oam.y = SignedOfField(Words(bytes)[1] % 4096, 256)
        /\ oam.x \in -128..127 /\ oam.y \in -128..127

\* 0x80ff, 0xf1ff, 0xffff has been decoded: vertical, size 3, flip both,
\* x = -1, y = -1, palette 15, tile 0xfff
C10_Witness ==
    /\ call.op = "new"
    /\ Words(bytes) = <<33023, 61951, 65535>>
    /\ oam = OAM("Vertical", "Size3", "Both", -1, -1, 15, 4095)

----------------------------------------------------------------------------
(* The parser: a text, with or without a header block, is handed to          *)
(* Animation::from_c.                                                        *)

MaxBody == 5     \* characters of the text after the header

Chars == {"{", "}", ",", " ", "a", "5"}
Headers == { << >>, <<"{", " ", " ", " ">> }

InitParse ==
    /\ \E h \in Headers, n \in 0..MaxBody :
         \E body \in [1..n -> Chars] : input = h \o body
    /\ frames = << >>
    /\ duration = 0
    /\ overflow_checks \in BOOLEAN
    /\ panicked = FALSE
    /\ call = NoCall
    /\ ret = "unit"
    /\ edits = 0
    /\ index = 0
    /\ out = << >>
    /\ OAMIdle

FromC ==
    /\ call.op = "none"
    /\ LET r == from_c(input)
       IN  /\ frames' = r.frames
           /\ duration' = r.duration
           /\ ret' = r.ret
           /\ panicked' = (r.ret = "panic")
    /\ call' = [op |-> "from_c", id |-> 0, arg |-> Len(input)]
    /\ UNCHANGED <<overflow_checks, edits, index, out, input>>
    /\ UNCHANGED oamVars

NextParse == FromC

SpecParse == InitParse /\ [][NextParse]_vars

----------------------------------------------------------------------------
(* Claims about the parser, checked under SpecParse *)

\* positions (from 1) of the frame blocks of a text: every '{' but the first
FrameBlocks(text) ==
    {p \in 1..Len(text) : text[p] = "{" /\ \E q \in 1..(p - 1) : text[q] = "{"}

\* the first position after p holding ch, Len(text) + 1 when there is none
FirstAfter(text, p, ch) ==
    IF \E q \in (p + 1)..Len(text) : text[q] = ch
    THEN CHOOSE q \in (p + 1)..Len(text) :
            text[q] = ch /\ \A k \in (p + 1)..(q - 1) : text[k] # ch
    ELSE Len(text) + 1

NoOpenBrace(text) == \A p \in 1..Len(text) : text[p] # "{"

BlockMissingClose(text) ==
    \E p \in FrameBlocks(text) : FirstAfter(text, p, "}") > Len(text)

BlockMissingComma(text) ==
    \E p \in FrameBlocks(text) : FirstAfter(text, p, ",") > FirstAfter(text, p, "}")

\* a block { name, duration } whose duration, spaces apart, is not a run of
\* digits
BlockDurationNotANumber(text) ==
    \E p \in FrameBlocks(text) :
        LET comma == FirstAfter(text, p, ",")
            close == FirstAfter(text, comma, "}")
            field == SelectSeq(SubSeq(text, comma + 1, close - 1), LAMBDA ch : ch # " ")
        IN  /\ comma <= Len(text) /\ close <= Len(text)
            /\ (field = << >> \/ \E k \in 1..Len(field) : ~IsDigit(field[k]))

Malformed(text) ==
    \/ NoOpenBrace(text)
    \/ BlockMissingClose(text)
    \/ BlockMissingComma(text)
    \/ BlockDurationNotANumber(text)

\* C11: Animation::from_c on a text with no '{', or with a frame block that
\* lacks its closing '}' or its ',', or whose duration is not a non-negative
\* integer, returns None: no Animation and no panic.
C11_MalformedTextGivesNone ==
    (call.op = "from_c" /\ Malformed(input)) => ret = "None"

====
